---- MODULE Spec2Model ----
(***************************************************************************)
(* Model of src/app.py: a Streamlit script that loads public-procurement   *)
(* records from an HTTP API or an uploaded JSON file into a pandas         *)
(* DataFrame, normalises it in place, filters it by internal_type and      *)
(* derives KPI and grouped views.                                          *)
(*                                                                         *)
(* Encoding of values.                                                     *)
(*  - A number cell is an integer >= 0.  NaN (-1) is pandas' missing       *)
(*    value: the cell of a key the JSON object does not have, and what     *)
(*    errors="coerce" produces.  Abc (-2) is a JSON text that is not a     *)
(*    number, such as "abc".  A numeric JSON text ("3") and the JSON       *)
(*    number 3 are the same cell: pd.to_numeric maps both to 3.            *)
(*  - internal_type is a string; NoType is its missing value.              *)
(*  - A frame is [columns, rows].  A row always carries the seven fields   *)
(*    the script ever touches; `columns` says which of them exist in the   *)
(*    frame (pandas keeps a column only for keys that occur in a record).  *)
(***************************************************************************)
EXTENDS Integers, Sequences, FiniteSets, TLC

\* ------------------------------------------------------------------ bounds
\* Largest number of records in a table drawn as input.
MaxRows == 2

\* ------------------------------------------------------------------ values
\* pandas' missing number.
NaN == -1
\* A JSON text that does not parse as a number.
Abc == -2
\* pandas' missing value in the internal_type column.
NoType == "<NaN>"
\* pandas' missing timestamp.
NaT == <<NaN, NaN, NaN>>
\* The province cell before line 88 creates the column.
NoProvince == ""

\* Mutant of ToNumeric: what is no number becomes 0 instead of missing.
CoerceToZero(v) == IF v >= 0 THEN v ELSE 0
\* pd.to_numeric(x, errors="coerce") on one cell.
ToNumeric(v) == IF v >= 0 THEN v ELSE NaN

\* Column names as they arrive, per header style, and c.strip().lower().
Fields == {"month", "total", "contracts", "internal_type", "year"}
HeaderStyles == {"plain", "padded_upper"}
RawName(style, f) ==
    IF style = "plain" THEN f
    ELSE CASE f = "month" -> " MONTH "
           [] f = "total" -> " TOTAL "
           [] f = "contracts" -> " CONTRACTS "
           [] f = "internal_type" -> " INTERNAL_TYPE "
           [] f = "year" -> " YEAR "
StripLower(c) ==
    CASE c = " MONTH " -> "month"
      [] c = " TOTAL " -> "total"
      [] c = " CONTRACTS " -> "contracts"
      [] c = " INTERNAL_TYPE " -> "internal_type"
      [] c = " YEAR " -> "year"
      [] OTHER -> c

\* ------------------------------------------------------------ raw records
RawMonths == {NaN, Abc, 1, 2}
RawTotals == {NaN, Abc, 0, 100}
RawContracts == {NaN, 2}
RawTypes == {NoType, "Compra", "Licitacion"}
RawYears == {NaN, 2020}

RawRecords ==
    [month : RawMonths, total : RawTotals, contracts : RawContracts,
     internal_type : RawTypes, year : RawYears,
     date : {NaT}, province : {NoProvince}]

HasKey(r, f) == IF f = "internal_type" THEN r.internal_type # NoType ELSE r[f] # NaN

RECURSIVE SeqsUpTo(_, _)
SeqsUpTo(S, n) ==
    IF n = 0 THEN {<<>>}
    ELSE LET shorter == SeqsUpTo(S, n - 1)
         IN shorter \cup {Append(s, x) : s \in {t \in shorter : Len(t) = n - 1}, x \in S}

\* pd.DataFrame(list of dicts): one column per key that occurs, one row per
\* record, cells of absent keys missing.
DataFrame(style, records) ==
    [columns |-> {RawName(style, f) :
                    f \in {g \in Fields : \E i \in 1..Len(records) : HasKey(records[i], g)}},
     rows |-> records]

\* pd.DataFrame(): no columns, no rows.
EmptyFrame == [columns |-> {}, rows |-> <<>>]

\* DataFrame.empty: some axis has length 0.
IsEmpty(frame) == frame.columns = {} \/ Len(frame.rows) = 0

\* ---------------------------------------------------------- normalisation
\* The outcome of a block of the script: the frame as the block left it and
\* the exception that ended it ("none": it ran to its end).
Outcome(err, frame) == [error |-> err, frame |-> frame]

\* Line 78.
RenameColumns(frame) == [frame EXCEPT !.columns = {StripLower(c) : c \in @}]

\* Lines 81-83: df[f] = pd.to_numeric(df[f], errors="coerce").
CoerceMonth(frame) ==
    [frame EXCEPT !.rows = [i \in 1..Len(@) |-> [@[i] EXCEPT !.month = ToNumeric(@)]]]
CoerceContracts(frame) ==
    [frame EXCEPT !.rows = [i \in 1..Len(@) |-> [@[i] EXCEPT !.contracts = ToNumeric(@)]]]
CoerceTotal(frame) ==
    [frame EXCEPT !.rows = [i \in 1..Len(@) |-> [@[i] EXCEPT !.total = ToNumeric(@)]]]

\* Line 86: the widget's year for the whole column when the frame has no
\* year column, the frame's own column as it is otherwise.
FillYear(frame, y) ==
    IF "year" \notin frame.columns
    THEN [columns |-> frame.columns \cup {"year"},
          rows |-> [i \in 1..Len(frame.rows) |-> [frame.rows[i] EXCEPT !.year = y]]]
    ELSE frame

\* Line 87 on one row: str(year) + "-" + str(month) + "-01" parses only when
\* both are numbers and the month is a calendar month.  (A month column with
\* a missing cell is a float column, so its texts are "nan" and "1.0".)
DateParses(r) == r.year # NaN /\ r.month \in 1..12
DateOf(r) == <<r.year, r.month, 1>>

\* Lines 87-88.
AddDate(frame) ==
    [columns |-> frame.columns \cup {"date"},
     rows |-> [i \in 1..Len(frame.rows) |->
                 [frame.rows[i] EXCEPT !.date = DateOf(frame.rows[i])]]]
AddProvince(frame) ==
    [columns |-> frame.columns \cup {"province"},
     rows |-> [i \in 1..Len(frame.rows) |->
                 [frame.rows[i] EXCEPT !.province = "Desconocido"]]]

\* Lines 78-88, in order, up to the first statement that raises.
Normalize(frame, y) ==
    LET f1 == RenameColumns(frame)
        f2 == CoerceMonth(f1)
        f3 == CoerceContracts(f2)
        f4 == CoerceTotal(f3)
        f5 == FillYear(f4, y)
    IN  IF "month" \notin f1.columns THEN Outcome("KeyError", f1)
        ELSE IF "contracts" \notin f2.columns THEN Outcome("KeyError", f2)
        ELSE IF "total" \notin f3.columns THEN Outcome("KeyError", f3)
        ELSE IF \E i \in 1..Len(f5.rows) : ~DateParses(f5.rows[i])
             THEN Outcome("ValueError", f5)
        ELSE Outcome("none", AddProvince(AddDate(f5)))

\* ----------------------------------------------------------------- filter
\* Line 92: the categories offered for selection, df["internal_type"]
\* .dropna().unique() (their sorted order is how the widget lists them).
Types(frame) == {frame.rows[i].internal_type : i \in 1..Len(frame.rows)} \ {NoType}

\* Mutant of FilterRows: the mask is not applied.
KeepAllRows(frame, selected) == frame
\* Line 95: df[df["internal_type"].isin(selected_types)], rows in order.
FilterRows(frame, selected) ==
    [frame EXCEPT !.rows = SelectSeq(@, LAMBDA r : r.internal_type \in selected)]

\* -------------------------------------------------------------- aggregates
\* Series.sum() of the total column: missing cells are skipped.
RECURSIVE SumTotal(_)
SumTotal(rows) ==
    IF rows = <<>> THEN 0
    ELSE (IF Head(rows).total = NaN THEN 0 ELSE Head(rows).total) + SumTotal(Tail(rows))

\* The rows whose total is present.
WithTotal(rows) == SelectSeq(rows, LAMBDA r : r.total # NaN)

\* Series.max(): the largest present cell, NaN when there is none.
MaxTotal(rows) ==
    LET present == {rows[i].total : i \in 1..Len(rows)} \ {NaN}
    IN  IF present = {} THEN NaN
        ELSE CHOOSE m \in present : \A x \in present : x <= m

\* Lines 100-103, the numbers before they are formatted.  promedio is
\* sum/count over the present cells, kept as the fraction: den = 0 is the
\* NaN that pandas reports for no present cell.
KPI(view) ==
    [registros |-> Len(view.rows),
     monto_total |-> SumTotal(view.rows),
     promedio |-> [num |-> SumTotal(view.rows), den |-> Len(WithTotal(view.rows))],
     maximo |-> MaxTotal(view.rows)]

\* groupby keys: groupby drops the rows whose key is missing.
CategoryKeys(view) ==
    {view.rows[i].internal_type : i \in 1..Len(view.rows)} \ {NoType}
MonthKeys(view) == {view.rows[i].month : i \in 1..Len(view.rows)} \ {NaN}

\* Line 109 before the sort: one [internal_type, total] per category.
ByCategory(view) ==
    {[internal_type |-> t,
      total |-> SumTotal(SelectSeq(view.rows, LAMBDA r : r.internal_type = t))] :
        t \in CategoryKeys(view)}

\* Line 116 before the sort: one [month, total] per month.
ByMonth(view) ==
    {[month |-> m, total |-> SumTotal(SelectSeq(view.rows, LAMBDA r : r.month = m))] :
        m \in MonthKeys(view)}

\* The sequences that list each member of a finite set once.
Arrangements(S) ==
    {s \in [1..Cardinality(S) -> S] : \A i, j \in 1..Cardinality(S) : i # j => s[i] # s[j]}

\* sort_values("total", ascending=False): equal totals in either order.
SortedByTotalDesc(S) ==
    {s \in Arrangements(S) : \A i, j \in 1..Len(s) : i < j => s[i].total >= s[j].total}
\* sort_values("month").
SortedByMonth(S) ==
    {s \in Arrangements(S) : \A i, j \in 1..Len(s) : i < j => s[i].month <= s[j].month}

\* Lines 128-129: heat has one row per (month, internal_type) that occurs
\* with both keys present; pivot spreads it over types x months, 0 where a
\* pair does not occur.
Heat(view) ==
    {<<view.rows[i].month, view.rows[i].internal_type>> : i \in 1..Len(view.rows)}
        \cap (MonthKeys(view) \X CategoryKeys(view))
Pivot(view) ==
    LET heat == Heat(view)
        idx == {p[2] : p \in heat}
        cols == {p[1] : p \in heat}
    IN  [c \in idx \X cols |->
            IF <<c[2], c[1]>> \in heat
            THEN SumTotal(SelectSeq(view.rows,
                     LAMBDA r : r.internal_type = c[1] /\ r.month = c[2]))
            ELSE 0]

\* Line 122: the points plotly draws, rows with both coordinates present.
ScatterPairs(view) ==
    LET pts == SelectSeq(view.rows, LAMBDA r : r.contracts # NaN /\ r.total # NaN)
    IN  [i \in 1..Len(pts) |-> <<pts[i].contracts, pts[i].total, pts[i].internal_type>>]

\* ------------------------------------------------------------ the sources
\* st.write / st.info / st.warning / st.error: one element on the page.
Msg(level, what, code) == [level |-> level, what |-> what, code |-> code]

Rec(m, t, c, ty, y) ==
    [month |-> m, total |-> t, contracts |-> c, internal_type |-> ty, year |-> y,
     date |-> NaT, province |-> NoProvince]

\* Record lists used as API bodies and file contents.
ScenarioTable == <<Rec(3, 100, 2, "Compra", NaN), Rec(3, 50, 1, "Licitacion", NaN)>>
PartialTable == <<Rec(1, Abc, 2, NoType, NaN), Rec(2, 100, NaN, "Compra", NaN)>>
BadMonthTable == <<Rec(Abc, 100, 2, "Compra", 2020)>>
KeylessTable == <<Rec(NaN, NaN, NaN, NoType, NaN)>>

\* A JSON document: it parses or not, and when it does it is a list of
\* records under one header style.
Json(ok, style, records) == [parses |-> ok, style |-> style, records |-> records]
Unparseable == Json(FALSE, "plain", <<>>)
Bodies ==
    {Unparseable, Json(TRUE, "plain", <<>>), Json(TRUE, "plain", ScenarioTable),
     Json(TRUE, "padded_upper", PartialTable)}

\* What requests.get does: it raises, or it returns a response.
NoResponse == [kind |-> "none", exc |-> "", status |-> 0, body |-> Unparseable]
Raises(exc) == [kind |-> "raise", exc |-> exc, status |-> 0, body |-> Unparseable]
Http(status, body) == [kind |-> "http", exc |-> "", status |-> status, body |-> body]
ApiResponses ==
    {Raises("ConnectionError"), Raises("Timeout")}
        \cup {Http(s, Unparseable) : s \in {404, 500}}
        \cup {Http(200, b) : b \in Bodies}

\* Line 55: the years offered (two of the widget's five).
YearOptions == {2024, 2025}

\* Line 64: the files a user may upload; "none" is no upload (and the value
\* in a run that never reaches the uploader).
Uploads == {"none", "broken.json", "badmonth.json", "keyless.json", "partial.json"}
FileContent(file) ==
    CASE file = "badmonth.json" -> Json(TRUE, "plain", BadMonthTable)
      [] file = "keyless.json" -> Json(TRUE, "plain", KeylessTable)
      [] file = "partial.json" -> Json(TRUE, "plain", PartialTable)
      [] OTHER -> Unparseable

\* Lines 15-40: what load_api returns and the elements it puts on the page.
LoadApiResult(resp) ==
    IF resp.kind = "raise"
    THEN [frame |-> EmptyFrame, messages |-> <<Msg("error", resp.exc, 0)>>]
    ELSE IF resp.status # 200
    THEN [frame |-> EmptyFrame,
          messages |-> <<Msg("write", "request", resp.status),
                         Msg("warning", "http_status", resp.status)>>]
    ELSE IF ~resp.body.parses
    THEN [frame |-> EmptyFrame,
          messages |-> <<Msg("write", "request", resp.status),
                         Msg("error", "JSONDecodeError", 0)>>]
    ELSE IF resp.body.records = <<>>
    THEN [frame |-> EmptyFrame,
          messages |-> <<Msg("write", "request", resp.status),
                         Msg("warning", "empty_list", 0)>>]
    ELSE [frame |-> DataFrame(resp.body.style, resp.body.records),
          messages |-> <<Msg("write", "request", resp.status)>>]

\* Lines 43-46: pd.read_json raises ValueError on a payload that is not JSON;
\* nothing catches it.
LoadLocalResult(content) ==
    IF ~content.parses THEN Outcome("ValueError", EmptyFrame)
    ELSE Outcome("none", DataFrame(content.style, content.records))

\* Mutant of Returned: the cache hands out the object it stores.
SameObject(fn) == fn
\* @st.cache_data (lines 14, 42) stores the result pickled and hands every
\* caller its own copy: the frame the script holds is never the stored
\* object.  The value is the cache ("load_api", "load_local_json") whose
\* stored object the returned frame is, "none" for a copy.
Returned(fn) == "none"

\* Mutant of AfterLoad: the emptiness check is missing.
AlwaysProceed(frame) == "loaded"
\* Lines 73-75: where the script goes after a load.
AfterLoad(frame) == IF IsEmpty(frame) THEN "stopped" ELSE "loaded"

\* ------------------------------------------------------------------ state
VARIABLES
    pc,              \* where the script run is: "start", "loaded", "normalized",
                     \* "filtered", "done", "stopped" (st.stop), "crashed"
    ran,             \* the blocks this run has executed
    error,           \* the exception that ended this run, "none" otherwise
    messages,        \* the diagnostics this run put on the page
    data_source,     \* line 54
    year,            \* line 55
    uploaded_file,   \* line 64
    response,        \* what requests.get did in this run (NoResponse: no request)
    cache_api,       \* st.cache_data of load_api: year -> [frame, messages]
    cache_file,      \* st.cache_data of load_local_json: file -> [frame, messages]
    shared,          \* the cache whose stored object df is ("none": its own object)
    loaded,          \* the frame as the load of this run returned it
    df,              \* the frame the script holds, changed in place by lines 78-88
    selected_types,  \* line 93
    df_filtered,     \* line 95
    kpi, agg, monthly, pivot, scatter   \* lines 100-129

vars ==
    <<pc, ran, error, messages, data_source, year, uploaded_file, response,
      cache_api, cache_file, shared, loaded, df, selected_types, df_filtered,
      kpi, agg, monthly, pivot, scatter>>

inputs == <<data_source, year, uploaded_file>>
caches == <<cache_api, cache_file>>
views == <<kpi, agg, monthly, pivot, scatter>>

Terminal == {"stopped", "crashed", "done"}

\* The views before the script has computed them.
NoViews ==
    /\ kpi' = KPI(EmptyFrame)
    /\ agg' = <<>>
    /\ monthly' = <<>>
    /\ pivot' = Pivot(EmptyFrame)
    /\ scatter' = <<>>

\* A rerun starts from the top with the widgets' current values; nothing of
\* the previous run's frames survives.
Begin(src, y, file) ==
    /\ pc \in {"start"} \cup Terminal
    /\ data_source' = src
    /\ year' = y
    /\ uploaded_file' = file
    /\ selected_types' = {}
    /\ df_filtered' = EmptyFrame
    /\ NoViews

Init ==
    /\ pc = "start"
    /\ ran = {}
    /\ error = "none"
    /\ messages = <<>>
    /\ data_source = "Archivo JSON local"
    /\ year = 2024
    /\ uploaded_file = "none"
    /\ response = NoResponse
    /\ cache_api = <<>>
    /\ cache_file = <<>>
    /\ shared = "none"
    /\ loaded = EmptyFrame
    /\ df = EmptyFrame
    /\ selected_types = {}
    /\ df_filtered = EmptyFrame
    /\ kpi = KPI(EmptyFrame)
    /\ agg = <<>>
    /\ monthly = <<>>
    /\ pivot = Pivot(EmptyFrame)
    /\ scatter = <<>>

\* Lines 56-60: a rerun in which the load button was not pressed.
NotPressed ==
    \E src \in {"Archivo JSON local", "API en linea"}, y \in YearOptions :
        /\ Begin(src, y, "none")
        /\ pc' = "stopped"
        /\ ran' = {}
        /\ error' = "none"
        /\ messages' = <<Msg("info", "press_load", 0)>>
        /\ response' = NoResponse
        /\ shared' = "none"
        /\ loaded' = EmptyFrame
        /\ df' = EmptyFrame
        /\ UNCHANGED caches

\* Lines 63-69: the file source with nothing uploaded.
NoUpload ==
    \E y \in YearOptions :
        /\ Begin("Archivo JSON local", y, "none")
        /\ pc' = "stopped"
        /\ ran' = {}
        /\ error' = "none"
        /\ messages' = <<Msg("warning", "upload_first", 0)>>
        /\ response' = NoResponse
        /\ shared' = "none"
        /\ loaded' = EmptyFrame
        /\ df' = EmptyFrame
        /\ UNCHANGED caches

\* The end of a load that returned `result` ([frame, messages]): lines 73-75.
Deliver(result, fn) ==
    /\ pc' = AfterLoad(result.frame)
    /\ ran' = {"load"}
    /\ error' = "none"
    /\ messages' = IF IsEmpty(result.frame)
                   THEN Append(result.messages, Msg("warning", "no_data", 0))
                   ELSE result.messages
    /\ shared' = Returned(fn)
    /\ loaded' = result.frame
    /\ df' = result.frame

\* Lines 63-66 and 73-75: load_local_json(uploaded_file) through its cache.
\* A call that raises stores nothing and ends the run.
LoadLocal ==
    \E y \in YearOptions, file \in Uploads \ {"none"} :
        /\ Begin("Archivo JSON local", y, file)
        /\ response' = NoResponse
        /\ UNCHANGED cache_api
        /\ IF file \in DOMAIN cache_file
           THEN /\ Deliver(cache_file[file], "load_local_json")
                /\ UNCHANGED cache_file
           ELSE LET out == LoadLocalResult(FileContent(file))
                    result == [frame |-> out.frame, messages |-> <<>>]
                IN  IF out.error # "none"
                    THEN /\ pc' = "crashed"
                         /\ ran' = {"load"}
                         /\ error' = out.error
                         /\ messages' = <<>>
                         /\ shared' = "none"
                         /\ loaded' = EmptyFrame
                         /\ df' = EmptyFrame
                         /\ UNCHANGED cache_file
                    ELSE /\ Deliver(result, "load_local_json")
                         /\ cache_file' = (file :> result) @@ cache_file

\* Lines 70-75: load_api(year) through its cache.  A cached result, an empty
\* one included, is returned with its diagnostics and without a request.
LoadApi ==
    \E y \in YearOptions, resp \in ApiResponses :
        /\ Begin("API en linea", y, "none")
        /\ UNCHANGED cache_file
        /\ IF y \in DOMAIN cache_api
           THEN /\ Deliver(cache_api[y], "load_api")
                /\ response' = NoResponse
                /\ UNCHANGED cache_api
           ELSE /\ Deliver(LoadApiResult(resp), "load_api")
                /\ response' = resp
                /\ cache_api' = (y :> LoadApiResult(resp)) @@ cache_api

\* What an in-place change of df does to the caches: the stored object
\* changes with it when df is that object.
WriteThrough(frame) ==
    /\ cache_api' = IF shared = "load_api"
                    THEN [cache_api EXCEPT ![year].frame = frame] ELSE cache_api
    /\ cache_file' = IF shared = "load_local_json"
                     THEN [cache_file EXCEPT ![uploaded_file].frame = frame]
                     ELSE cache_file

\* Lines 78-88.
NormalizeStep ==
    /\ pc = "loaded"
    /\ LET out == Normalize(df, year)
       IN  /\ df' = out.frame
           /\ WriteThrough(out.frame)
           /\ error' = out.error
           /\ pc' = IF out.error = "none" THEN "normalized" ELSE "crashed"
    /\ ran' = ran \cup {"normalize"}
    /\ UNCHANGED <<messages, inputs, response, shared, loaded, selected_types,
                   df_filtered, views>>

\* Lines 91-95: df["internal_type"] raises KeyError without the column; the
\* multiselect returns some of the options it offers.
FilterStep ==
    /\ pc = "normalized"
    /\ ran' = ran \cup {"filter"}
    /\ IF "internal_type" \notin df.columns
       THEN /\ pc' = "crashed"
            /\ error' = "KeyError"
            /\ UNCHANGED <<selected_types, df_filtered>>
       ELSE \E sel \in SUBSET Types(df) :
                /\ selected_types' = sel
                /\ df_filtered' = FilterRows(df, sel)
                /\ pc' = "filtered"
                /\ error' = error
    /\ UNCHANGED <<messages, inputs, response, caches, shared, loaded, df, views>>

\* Lines 97-132.
AggregateStep ==
    /\ pc = "filtered"
    /\ ran' = ran \cup {"aggregate"}
    /\ kpi' = KPI(df_filtered)
    /\ agg' \in SortedByTotalDesc(ByCategory(df_filtered))
    /\ monthly' \in SortedByMonth(ByMonth(df_filtered))
    /\ scatter' = ScatterPairs(df_filtered)
    /\ pivot' = Pivot(df_filtered)
    /\ pc' = "done"
    /\ UNCHANGED <<error, messages, inputs, response, caches, shared, loaded, df,
                   selected_types, df_filtered>>

Next == NotPressed \/ NoUpload \/ LoadLocal \/ LoadApi
          \/ NormalizeStep \/ FilterStep \/ AggregateStep

Spec == Init /\ [][Next]_vars

\* ------------------------------------------------- the pipeline on any table
\* The state right after a first load_api(year) returned a table: the body
\* is any list of 1..MaxRows records, under either header style.
RawTables == SeqsUpTo(RawRecords, MaxRows) \ {<<>>}

LoadedFrom(y, resp) ==
    /\ pc = AfterLoad(LoadApiResult(resp).frame)
    /\ ran = {"load"}
    /\ error = "none"
    /\ messages = LoadApiResult(resp).messages
    /\ data_source = "API en linea"
    /\ year = y
    /\ uploaded_file = "none"
    /\ response = resp
    /\ cache_api = (y :> LoadApiResult(resp))
    /\ cache_file = <<>>
    /\ shared = Returned("load_api")
    /\ loaded = LoadApiResult(resp).frame
    /\ df = LoadApiResult(resp).frame
    /\ selected_types = {}
    /\ df_filtered = EmptyFrame
    /\ kpi = KPI(EmptyFrame)
    /\ agg = <<>>
    /\ monthly = <<>>
    /\ pivot = Pivot(EmptyFrame)
    /\ scatter = <<>>

PipeInit ==
    \E y \in YearOptions, style \in HeaderStyles, records \in RawTables :
        /\ ~IsEmpty(DataFrame(style, records))
        /\ LoadedFrom(y, Http(200, Json(TRUE, style, records)))

PipeNext == NormalizeStep \/ FilterStep \/ AggregateStep

PipeSpec == PipeInit /\ [][PipeNext]_vars

\* ------------------------------------- the pipeline on tables that normalise
\* As PipeSpec, from the tables whose every record has a calendar month, a
\* contracts count and no year of its own: line 87 parses every date, so the
\* runs go on to the filter and the views.
CleanRecords ==
    [month : {1, 2}, total : RawTotals, contracts : {2}, internal_type : RawTypes,
     year : {NaN}, date : {NaT}, province : {NoProvince}]

CleanInit ==
    \E style \in HeaderStyles, records \in SeqsUpTo(CleanRecords, MaxRows) \ {<<>>} :
        LoadedFrom(2024, Http(200, Json(TRUE, style, records)))

CleanSpec == CleanInit /\ [][PipeNext]_vars

\* ================================================================== claims
\* Helpers of the claims' formulas.  They read the frame as it was loaded
\* (`loaded`), not the operators above.
Pipeline == {"normalize", "filter", "aggregate"}

\* The loaded records that the selection admits, in order.
RawView == SelectSeq(loaded.rows, LAMBDA r : r.internal_type \in selected_types)
\* Those of `rows` whose raw total is a number.
RawNumeric(rows) == SelectSeq(rows, LAMBDA r : r.total >= 0)
RECURSIVE RawSum(_)
RawSum(rows) == IF rows = <<>> THEN 0 ELSE Head(rows).total + RawSum(Tail(rows))

\* The sum of the total field over a sequence of group rows.
RECURSIVE GroupSum(_)
GroupSum(groups) == IF groups = <<>> THEN 0 ELSE Head(groups).total + GroupSum(Tail(groups))

\* The sum of the cells of a pivot.
RECURSIVE SumCells(_, _)
SumCells(f, cells) ==
    IF cells = {} THEN 0
    ELSE LET c == CHOOSE x \in cells : TRUE IN f[c] + SumCells(f, cells \ {c})
PivotSum == SumCells(pivot, DOMAIN pivot)

\* C1: a fetch answered with a status other than 200 ends the run stopped,
\* not crashed, with the empty frame and a warning that carries the status
\* code; and a run whose load returned the empty frame executes none of the
\* normalize, filter and aggregate blocks.
C1_StatusErrorStopsRun ==
    /\ (response.kind = "http" /\ response.status # 200) =>
          /\ pc = "stopped"
          /\ error = "none"
          /\ IsEmpty(df)
          /\ \E i \in 1..Len(messages) :
                messages[i] = Msg("warning", "http_status", response.status)
    /\ IsEmpty(loaded) => ran \cap Pipeline = {}

\* C1's case: the API answered 500 and the run has ended.
C1_Witness ==
    /\ response.kind = "http"
    /\ response.status = 500
    /\ ran = {"load"}
    /\ pc = "stopped"

\* C2: no load ends in an uncaught exception: after the load block the run
\* has not crashed, and an empty result comes with a diagnostic.
C2_NoUncaughtLoadError ==
    ran = {"load"} =>
        /\ pc # "crashed"
        /\ error = "none"
        /\ IsEmpty(df) => messages # <<>>

\* C3: filtering with no category selected gives the empty view, and
\* filtering with every offered category selected gives the table itself,
\* every row kept in order.
C3_FilterAllKeepsTable ==
    pc = "filtered" =>
        /\ selected_types = {} => df_filtered.rows = <<>>
        /\ selected_types = Types(df) => df_filtered.rows = df.rows

\* The three sums agree in a run that has aggregated.
C4_SumsAgreeWhenAggregated ==
    pc = "done" =>
        /\ PivotSum = GroupSum(agg)
        /\ GroupSum(agg) = GroupSum(monthly)

\* A loaded record whose month is missing or no number and whose total is a
\* number.
HasMissingMonthWithTotal ==
    \E i \in 1..Len(loaded.rows) : loaded.rows[i].month < 0 /\ loaded.rows[i].total >= 0

\* C4: the cells of the pivot, the ByCategory totals and the ByMonth totals
\* have the same sum for every view, the views of tables with a record whose
\* month is missing and whose total is present included: normalisation of
\* such a table ends without an exception, so that its view exists, and the
\* three sums of every aggregated view agree.
C4_ThreeSumsEqual ==
    /\ C4_SumsAgreeWhenAggregated
    /\ (/\ ran = {"load", "normalize"}
        /\ {"month", "contracts", "total"} \subseteq RenameColumns(loaded).columns
        /\ \A i \in 1..Len(loaded.rows) : loaded.rows[i].year = NaN
        /\ HasMissingMonthWithTotal) => error = "none"

\* C5: the ByCategory totals add up to the KPI sum of total, and both are
\* the sum of the raw totals that are numbers over the admitted records: a
\* missing total adds 0 to either.
C5_CategorySumIsKpiSum ==
    pc = "done" =>
        /\ GroupSum(agg) = kpi.monto_total
        /\ kpi.monto_total = RawSum(RawNumeric(RawView))

\* C5's case: a view with a missing total and a present one that is not 0
\* has been aggregated.
C5_Witness ==
    /\ pc = "done"
    /\ \E i, j \in 1..Len(df_filtered.rows) :
          df_filtered.rows[i].total = NaN /\ df_filtered.rows[j].total > 0

\* C6: normalisation of a non-empty list of records ends without an
\* exception and leaves one row per record, in the order of the records.
C6_NormalizeKeepsEveryRow ==
    ran = {"load", "normalize"} =>
        /\ error = "none"
        /\ Len(df.rows) = Len(loaded.rows)
        /\ \A i \in 1..Len(df.rows) :
              df.rows[i].internal_type = loaded.rows[i].internal_type

\* C7: a record whose total is a text that is no number has total missing,
\* not 0; it counts in registros, is left out of the mean and the maximum,
\* and adds 0 to its category's and its month's sum.
C7_UnparseableTotalIsMissing ==
    pc = "done" =>
        /\ \A i \in 1..Len(loaded.rows) :
              loaded.rows[i].total = Abc => df.rows[i].total = NaN /\ df.rows[i].total # 0
        /\ kpi.registros = Len(RawView)
        /\ kpi.promedio = [num |-> RawSum(RawNumeric(RawView)),
                           den |-> Len(RawNumeric(RawView))]
        /\ LET numbers == {RawView[i].total : i \in 1..Len(RawView)} \ {NaN, Abc}
           IN  /\ numbers = {} => kpi.maximo = NaN
               /\ numbers # {} =>
                     kpi.maximo \in numbers /\ \A x \in numbers : x <= kpi.maximo
        /\ \A g \in 1..Len(agg) :
              agg[g].total = RawSum(RawNumeric(SelectSeq(RawView,
                                 LAMBDA r : r.internal_type = agg[g].internal_type)))
        /\ \A g \in 1..Len(monthly) :
              monthly[g].total = RawSum(RawNumeric(SelectSeq(RawView,
                                     LAMBDA r : r.month = monthly[g].month)))

\* C7's case: an admitted record with total "abc" beside one with a total
\* that is a number other than 0, aggregated.
C7_Witness ==
    /\ pc = "done"
    /\ \E i, j \in 1..Len(RawView) : RawView[i].total = Abc /\ RawView[j].total > 0

\* C8: no step changes a stored result of either cache, filtering and
\* aggregating leave df as it is, and the views a run ends with are those of
\* the frame it loaded, its year and its selection.
C8_NoHiddenMutation ==
    [][/\ \A y \in DOMAIN cache_api :
             y \in DOMAIN cache_api' /\ cache_api'[y] = cache_api[y]
       /\ \A f \in DOMAIN cache_file :
             f \in DOMAIN cache_file' /\ cache_file'[f] = cache_file[f]
       /\ pc \in {"normalized", "filtered"} => df' = df
       /\ pc' = "done" =>
             LET view == FilterRows(Normalize(loaded', year').frame, selected_types')
             IN  /\ df_filtered' = view
                 /\ kpi' = KPI(view)
                 /\ pivot' = Pivot(view)
                 /\ agg' \in SortedByTotalDesc(ByCategory(view))
                 /\ monthly' \in SortedByMonth(ByMonth(view))]_vars

\* C8's case: a run that took its frame from the cache (no request), after
\* an earlier run loaded and normalised the same result, has ended.
C8_Witness ==
    /\ pc = "done"
    /\ data_source = "API en linea"
    /\ response = NoResponse
    /\ year \in DOMAIN cache_api

\* The loaded frame has the three columns lines 81-83 read.
HasNumericColumns ==
    {"month", "contracts", "total"} \subseteq RenameColumns(loaded).columns
\* Every record has a year, or none has.
YearUniform ==
    \/ \A i \in 1..Len(loaded.rows) : loaded.rows[i].year = NaN
    \/ \A i \in 1..Len(loaded.rows) : loaded.rows[i].year # NaN

\* C9: on a table with the columns the script reads, normalisation ends
\* without an exception; the date of a record is the first day of its year
\* and month when the month is 1..12, and missing when the month is missing
\* or no number.
C9_DateOrMissing ==
    (ran = {"load", "normalize"} /\ HasNumericColumns /\ YearUniform) =>
        /\ error = "none"
        /\ \A i \in 1..Len(loaded.rows) :
              LET m == loaded.rows[i].month
              IN  /\ m \in 1..12 => df.rows[i].date = <<df.rows[i].year, m, 1>>
                  /\ m < 0 => df.rows[i].date = NaT

\* C10: once line 86 has run, the year of every row is its record's own
\* year when the record has one, and the year of the load otherwise.
C10_YearPerRecord ==
    (ran = {"load", "normalize"} /\ HasNumericColumns) =>
        \A i \in 1..Len(loaded.rows) :
            df.rows[i].year = IF loaded.rows[i].year # NaN
                              THEN loaded.rows[i].year ELSE year
====
